---- MODULE Spec2Model ----
(***************************************************************************)
(* Model of ftl-automation: the automation() context manager (core.py),   *)
(* the AutomationContext and its ToolsProxy (context.py), the builtin     *)
(* tools (builtin_tools.py) and the AutomationTool base (tool_base.py).   *)
(*                                                                         *)
(* Four specifications share the variables:                                *)
(*   Spec      one run of automation(...) as seen by the code entering it *)
(*   CtxSpec   a script driving an AutomationContext it constructed       *)
(*   ToolSpec  a script invoking the builtin tools directly               *)
(*   LoaderSpec  a script calling the loaders of tools.py                  *)
(***************************************************************************)
EXTENDS Integers, Sequences, FiniteSets, TLC

VARIABLES
    pc,             \* position of the modelled code
    phases,         \* Spec: lifecycle phases passed so far, in order
    args,           \* Spec: the arguments automation() was called with
    files,          \* paths existing on disk
    env,            \* os.environ: the variables that are set
    inv,            \* inventory held by the run / the context
    mods,           \* module paths held by the run / the context
    secrets_dict,   \* secrets held by the run / the context
    loop,           \* background event loop and its thread
    ctx_built,      \* an AutomationContext has been constructed
    tools_dict,     \* context._tools_dict
    tool_instances, \* the local dict being filled (core.py:132, tools.py:67)
    bi,             \* iteration index of the loop in progress (core.py:136, tools.py:69)
    stdout,         \* messages written with print()
    console_log,    \* messages written with console.print()
    prompts,        \* number of Prompt.ask calls issued
    raised,         \* Spec: every exception raised inside automation(), in order
    outcome,        \* what the last finished call gave its caller
    calls,          \* capability invocations made by the run or by the last operation
    nops,           \* operations the script has finished (not in Spec)
    gate_cache,     \* the connection-cache object the context holds
    proxy_tools     \* the mapping object context.tools (ToolsProxy._tools) holds

vars == <<pc, phases, args, files, env, inv, mods, secrets_dict, loop,
          ctx_built, tools_dict, tool_instances, bi, stdout, console_log,
          prompts, raised, outcome, calls, nops, gate_cache, proxy_tools>>

(***************************************************************************)
(* Bounds                                                                  *)
(***************************************************************************)
MaxOps == 3         \* operations a script performs (not in Spec)
MaxNames == 2       \* length of a list of requested tool names
MaxPrints == 1      \* messages a script prints through its context

(***************************************************************************)
(* Values                                                                  *)
(***************************************************************************)
None == "None"
CTX == "context"    \* the AutomationContext object of the run

EmptyDict == [n \in {} |-> None]

\* dict.update(): the entries of u replace those of d
Update(d, u) == [n \in (DOMAIN d) \cup (DOMAIN u) |->
                    IF n \in DOMAIN u THEN u[n] ELSE d[n]]

\* dict.get(k): the value, or None
Get(d, k) == IF k \in DOMAIN d THEN d[k] ELSE None

Returned(v) == [kind |-> "return", cls |-> "none", payload |-> v]
Raised(c, p) == [kind |-> "raise", cls |-> c, payload |-> p]
Pending == [kind |-> "pending", cls |-> "none", payload |-> None]

\* exceptions.py:8 and builtin_tools.py:46 define two unrelated classes
\* both called CompletionException
ExcCompletion == "exceptions.CompletionException"
BtCompletion == "builtin_tools.CompletionException"
BtImpossible == "builtin_tools.ImpossibleException"

(***************************************************************************)
(* builtin_tools.py: the builtin functions                                 *)
(***************************************************************************)
\* get_builtin_tools(): the keys of the returned dict, in insertion order
BuiltinOrder == <<"user_input_tool", "input_tool", "complete", "impossible",
                  "save_user_input", "load_user_input", "get_secret",
                  "debug_tool">>

\* the message a signalling or debug function writes for text m
Mark(fn) == CASE fn = "complete" -> "ok"
              [] fn = "impossible" -> "fail"
              [] OTHER -> "debug"

Style(fn) == CASE fn = "complete" -> "green"
               [] fn = "impossible" -> "red"
               [] OTHER -> "dim"

Msg(fn, m, styled) ==
    [mark |-> Mark(fn), style |-> IF styled THEN Style(fn) ELSE "plain",
     body |-> m]

SignalClass(fn) == IF fn = "complete" THEN BtCompletion ELSE BtImpossible


\* Prompt.ask (rich) is an external call: it shows the prompt and returns
\* the user's answer, or it fails before a prompt was shown
Answers == {"yes", "no"}
PromptOutcomes == {Returned(a) : a \in Answers}
                  \cup {Raised("PromptError", None)}

(***************************************************************************)
(* core.py: load_inventory, load_modules                                   *)
(***************************************************************************)
InventoryPath == "conf/inventory.yml"
EmptyInventoryText == "{}\n"
DirName(path) == IF path = InventoryPath THEN "conf" ELSE ""

\* ftl.load_inventory: the hosts the file's text describes
ParseInventory(text) == IF text = EmptyInventoryText THEN {} ELSE {"web1"}
CallerInventory == {"localhost"}   \* an inventory passed as a mapping

IsPath(inventory) == inventory = InventoryPath

\* a load that leaves a missing path missing
load_inventory_filesNoCreate(path, disk) == disk

\* the disk after load_inventory(path), core.py:25-31
load_inventory_files(path, disk) ==
    IF path \in DOMAIN disk
    THEN disk
    ELSE LET withDir == IF DirName(path) # "" /\ DirName(path) \notin DOMAIN disk
                        THEN (DirName(path) :> "dir") @@ disk
                        ELSE disk
         IN (path :> EmptyInventoryText) @@ withDir

load_inventory(path, disk) == ParseInventory(load_inventory_files(path, disk)[path])

\* a load that keeps every path it is given
load_modulesUnfiltered(module_paths, disk) == module_paths

\* core.py:36-51
load_modules(module_paths, disk) ==
    SelectSeq(module_paths, LAMBDA p : p \in DOMAIN disk)

Range(s) == {s[i] : i \in DOMAIN s}

\* the connection-cache objects a run can create
ScopeCache == "cache of scope"       \* core.py:110
ContextCache == "cache of context"   \* context.py:56
CallerCache == "cache of caller"     \* passed by code constructing a context

\* context.gate_cache after AutomationContext.__init__(..., **kwargs):
\* context.py:56 makes a new cache, context.py:59-61 then set every keyword
\* argument in kwargs as an attribute, gate_cache included
InitGateCache(kwargs) ==
    IF "gate_cache" \in DOMAIN kwargs THEN kwargs["gate_cache"]
    ELSE ContextCache

\* ToolsProxy.__init__(tools_dict), context.py:12-13 and 50-51: the proxy
\* keeps the mapping it is given
ToolsProxyInit(tools) == tools

(***************************************************************************)
(* core.py: automation()                                                   *)
(***************************************************************************)
Disks == {d \in [{"conf", InventoryPath, "modules", "roles"} ->
                      {"dir", "hosts", "absent"}] :
            /\ d["conf"] \in {"dir", "absent"}
            /\ d[InventoryPath] \in {"hosts", "absent"}
            /\ d[InventoryPath] = "hosts" => d["conf"] = "dir"
            /\ d["modules"] \in {"dir", "absent"}
            /\ d["roles"] \in {"dir", "absent"}}

DiskOf(d) == [p \in {q \in DOMAIN d : d[q] # "absent"} |-> d[p]]

SecretNames == {"API_TOKEN", "DB_PASSWORD"}

ArgSets ==
    [inventory : {InventoryPath, "mapping"},
     modules   : {<<>>, <<"modules", "roles">>,
                  <<"roles", "lib", "modules", "roles">>},
     tools     : {<<>>, <<"hostname", "ghost">>, <<"complete">>},
     tools_files : {<<>>, <<"tools.py">>},   \* not a parameter: lands in **kwargs
     secrets   : {<<>>, <<"API_TOKEN">>, <<"API_TOKEN", "DB_PASSWORD">>}]

Init ==
    /\ pc = "UNINITIALIZED"
    /\ phases = <<>>
    /\ args \in ArgSets
    /\ \E d \in Disks : files = DiskOf(d)
    /\ \E set \in SUBSET SecretNames : env = [n \in set |-> "value of " \o n]
    /\ inv = {}
    /\ mods = <<>>
    /\ secrets_dict = EmptyDict
    /\ loop = "none"
    /\ ctx_built = FALSE
    /\ tools_dict = EmptyDict
    /\ tool_instances = EmptyDict
    /\ bi = 0
    /\ stdout = <<>>
    /\ console_log = <<>>
    /\ prompts = 0
    /\ raised = <<>>
    /\ outcome = Pending
    /\ calls = <<>>
    /\ nops = 0
    /\ gate_cache = None
    /\ proxy_tools = EmptyDict

\* An exception raised at core.py:86-144 is outside the try of core.py:146:
\* it leaves automation() and reaches the code that entered the scope
Propagate(exc) ==
    /\ raised' = Append(raised, exc)
    /\ outcome' = exc
    /\ pc' = "returned"

\* An absent or empty list argument is <<>>: the code tests these arguments
\* for truth (modules or [...], if secrets:, if tools:)
\* core.py:86-94
LoadInventory ==
    /\ pc = "UNINITIALIZED"
    /\ stdout' = Append(stdout, [mark |-> "inventory", style |-> "plain",
                                 body |-> args.inventory])
    /\ IF IsPath(args.inventory)
       THEN /\ files' = load_inventory_files(args.inventory, files)
            /\ IF args.inventory \in DOMAIN files'
               THEN /\ inv' = load_inventory(args.inventory, files)
                    /\ pc' = "load_modules"
                    /\ UNCHANGED <<raised, outcome>>
               ELSE \* ftl.load_inventory opens the path, core.py:33
                    /\ Propagate(Raised("FileNotFoundError", args.inventory))
                    /\ inv' = inv
       ELSE /\ files' = files
            /\ inv' = CallerInventory
            /\ pc' = "load_modules"
            /\ UNCHANGED <<raised, outcome>>
    /\ UNCHANGED <<phases, args, env, mods, secrets_dict, loop, ctx_built,
                   tools_dict, tool_instances, bi, console_log, prompts,
                   calls, nops,
                   gate_cache, proxy_tools>>

\* core.py:96-97
LoadModules ==
    /\ pc = "load_modules"
    /\ mods' = load_modules(IF args.modules = <<>> THEN <<"modules">>
                            ELSE args.modules, files)
    /\ phases' = Append(phases, "INVENTORY_LOADED")
    /\ pc' = "load_secrets"
    /\ UNCHANGED <<args, files, env, inv, secrets_dict, loop, ctx_built,
                   tools_dict, tool_instances, bi, stdout, console_log,
                   prompts, raised, outcome, calls, nops,
                   gate_cache, proxy_tools>>

\* secrets read with os.environ[name]: a name that is not set fails
LoadSecretsStrict ==
    /\ pc = "load_secrets"
    /\ IF \E n \in Range(args.secrets) : n \notin DOMAIN env
       THEN /\ Propagate(Raised("KeyError",
                   CHOOSE n \in Range(args.secrets) : n \notin DOMAIN env))
            /\ secrets_dict' = secrets_dict
       ELSE /\ secrets_dict' = [n \in Range(args.secrets) |-> env[n]]
            /\ pc' = "start_loop"
            /\ UNCHANGED <<raised, outcome>>
    /\ UNCHANGED <<phases, args, files, env, inv, mods, loop, ctx_built,
                   tools_dict, tool_instances, bi, stdout, console_log,
                   prompts, calls, nops,
                   gate_cache, proxy_tools>>

\* core.py:99-107
LoadSecrets ==
    /\ pc = "load_secrets"
    /\ secrets_dict' = IF args.secrets = <<>>
                       THEN EmptyDict
                       ELSE [n \in Range(args.secrets) |-> Get(env, n)]
    /\ pc' = "start_loop"
    /\ UNCHANGED <<phases, args, files, env, inv, mods, loop, ctx_built,
                   tools_dict, tool_instances, bi, stdout, console_log,
                   prompts, raised, outcome, calls, nops,
                   gate_cache, proxy_tools>>

\* core.py:109-113: gate_cache = {}, a new loop and its thread
StartLoop ==
    /\ pc = "start_loop"
    /\ gate_cache' = ScopeCache
    /\ loop' = "running"
    /\ pc' = "construct_context"
    /\ UNCHANGED <<phases, args, files, env, inv, mods, secrets_dict,
                   ctx_built, tools_dict, tool_instances, bi, stdout,
                   console_log, prompts, raised, outcome, calls, nops,
                   proxy_tools>>

\* core.py:115-132 and AutomationContext.__init__ (context.py:37-61); the
\* keyword arguments automation() does not declare, such as tools_files, are
\* in **kwargs and become attributes of the context (context.py:59-61)
ConstructContext ==
    /\ pc = "construct_context"
    /\ ctx_built' = TRUE
    /\ tools_dict' = EmptyDict
    /\ proxy_tools' = ToolsProxyInit(tools_dict')
    /\ gate_cache' = InitGateCache("gate_cache" :> gate_cache)
    /\ tool_instances' = EmptyDict
    /\ bi' = 1
    /\ phases' = Append(phases, "CONTEXT_CONSTRUCTED")
    /\ pc' = "bind_builtins"
    /\ UNCHANGED <<args, files, env, inv, mods, secrets_dict, loop, stdout,
                   console_log, prompts, raised, outcome, calls, nops>>

\* core.py:135-137, one iteration: tool_instances[name] = tool_class(context)
\* where tool_class is the function get_builtin_tools() maps name to
BindBuiltin ==
    /\ pc = "bind_builtins"
    /\ bi <= Len(BuiltinOrder)
    /\ LET fn == BuiltinOrder[bi]
           bound(v) == /\ tool_instances' = Update(tool_instances, fn :> v)
                       /\ bi' = bi + 1
                       /\ pc' = IF bi = Len(BuiltinOrder) THEN "load_tools"
                                ELSE "bind_builtins"
                       /\ UNCHANGED <<raised, outcome>>
       IN
       /\ calls' = Append(calls, [tool |-> fn, pos |-> <<CTX>>, kw |-> EmptyDict])
       /\ CASE fn \in {"user_input_tool", "input_tool"} ->
                 \* Prompt.ask(context, default=None)
                 \E r \in PromptOutcomes :
                    IF r.kind = "return"
                    THEN /\ prompts' = prompts + 1
                         /\ bound(r.payload)
                         /\ UNCHANGED stdout
                    ELSE /\ Propagate(r)
                         /\ UNCHANGED <<prompts, stdout, tool_instances, bi>>
            [] fn \in {"complete", "impossible"} ->
                 \* no console keyword: print(), then raise
                 /\ stdout' = Append(stdout, Msg(fn, CTX, FALSE))
                 /\ Propagate(Raised(SignalClass(fn), CTX))
                 /\ UNCHANGED <<prompts, tool_instances, bi>>
            [] fn = "save_user_input" ->
                 \* the required parameter 'value' is missing
                 /\ Propagate(Raised("TypeError", fn))
                 /\ UNCHANGED <<prompts, stdout, tool_instances, bi>>
            [] fn \in {"load_user_input", "get_secret"} ->
                 /\ bound(None)
                 /\ UNCHANGED <<prompts, stdout>>
            [] OTHER ->
                 \* debug_tool
                 /\ stdout' = Append(stdout, Msg(fn, CTX, FALSE))
                 /\ bound(None)
                 /\ UNCHANGED prompts
    /\ UNCHANGED <<phases, args, files, env, inv, mods, secrets_dict, loop,
                   ctx_built, tools_dict, console_log, nops,
                   gate_cache, proxy_tools>>

\* The third iteration calls complete(context), which raises whatever the
\* first two did: no behaviour reaches core.py:139-161 (BindingNeverCompletes)
Next == \/ LoadInventory
        \/ LoadModules
        \/ LoadSecrets
        \/ StartLoop
        \/ ConstructContext
        \/ BindBuiltin

Spec == Init /\ [][Next]_vars

BindingNeverCompletes == pc # "load_tools"

\* core.py:146-150: the except clause names the class imported at
\* core.py:11 from exceptions.py; it catches that class and its subclasses
ScopeCatches(cls) == cls = ExcCompletion

\* the phases of one automation scope, in order (core.py:86-161)
AllPhases == <<"INVENTORY_LOADED", "CONTEXT_CONSTRUCTED", "TOOLS_BOUND",
               "ACTIVE", "TORN_DOWN">>


(***************************************************************************)
(* context.py: ToolsProxy and AutomationContext, driven by a script that   *)
(* constructed the context itself (as tests/test_loading_tools.py does)    *)
(***************************************************************************)
CtxNames == {"debug_tool", "hostname", "get", "keys"}   \* names a mapping may bind
Objects == {"obj1", "obj2"}                     \* capability objects
AskedNames == CtxNames \cup {"nonexistent_tool"}
Kwargs == {EmptyDict, ("message" :> "m1")}

ToolDicts == UNION {[S -> Objects] : S \in SUBSET CtxNames}

\* A capability is code outside this package: invoked, it returns a value
\* (None, another callable, some text) or raises
CapabilityOutcomes == {Returned(None), Returned("obj1"), Returned("text"),
                       Raised("ToolError", None)}

IsCallable(v) == v \in Objects

\* attributes an AutomationContext instance has (context.py:37-104);
\* the class defines no __getattr__
ContextAttrs == {"inventory", "modules", "_tools_dict", "tools", "localhost",
                 "extra_vars", "console", "secrets", "gate_cache", "use_gate",
                 "get_tool", "execute_tool", "run_module", "print", "cleanup"}

\* attributes a ToolsProxy has besides __getattr__ (context.py:9-27): normal
\* attribute lookup finds these, and __getattr__ is not asked
ProxyAttrs == {"keys", "_tools"}

\* a missing name answered like dict.get would, instead of raising
ProxyGetattrLenient(tools, name) == Returned(Get(tools, name))

\* ToolsProxy.__getattr__(name), context.py:15-18: reached for every name
\* normal attribute lookup does not find
ProxyGetattr(tools, name) ==
    IF name \in DOMAIN tools
    THEN Returned(tools[name])
    ELSE Raised("AttributeError", name)

\* the keyword arguments execute_tool adds, context.py:74-81
ContextKw == ("inventory" :> "inventory") @@ ("modules" :> "modules")
             @@ ("console" :> "console") @@ ("gate_cache" :> "gate_cache")
             @@ ("use_gate" :> "use_gate")

\* the secrets mapping the script constructs the context with
ConstructedSecrets == ("API_TOKEN" :> "value of API_TOKEN")

CtxInit ==
    /\ pc = "script"
    /\ phases = <<>>
    /\ args = [op |-> "construct", name |-> None, kw |-> EmptyDict]
    /\ files = EmptyDict
    /\ env = EmptyDict
    /\ inv = CallerInventory
    /\ mods = <<"modules">>
    /\ secrets_dict = ConstructedSecrets
    /\ loop = "none"
    /\ ctx_built = TRUE
    /\ tools_dict \in ToolDicts
    /\ tool_instances = EmptyDict
    /\ bi = 0
    /\ stdout = <<>>
    /\ console_log = <<>>
    /\ prompts = 0
    /\ raised = <<>>
    /\ outcome = Pending
    /\ calls = <<>>
    /\ nops = 0
    /\ gate_cache \in {InitGateCache(EmptyDict),
                       InitGateCache("gate_cache" :> CallerCache)}
    /\ proxy_tools = ToolsProxyInit(tools_dict)

ctxFrame == <<phases, files, env, inv, mods, secrets_dict, loop, ctx_built,
              tools_dict, tool_instances, bi, stdout, console_log, prompts,
              raised, gate_cache, proxy_tools>>

\* an operation of the script ends with result r
Finish(r) ==
    /\ outcome' = r
    /\ nops' = nops + 1

\* self.tools.get(name), context.py:65: ToolsProxy has no method get, so
\* the proxy looks up the capability named "get" and calls it with name
\* (the possible results, each with the invocations it made)
ProxyGet(name) ==
    LET got == ProxyGetattr(proxy_tools, "get") IN
    IF "get" \in ProxyAttrs \/ got.kind = "raise"
    THEN {[result |-> got, made |-> <<>>]}
    ELSE {[result |-> r,
           made |-> <<[tool |-> got.payload, pos |-> <<name>>,
                       kw |-> EmptyDict]>>] : r \in CapabilityOutcomes}

\* AutomationContext.get_tool, context.py:63-65
GetTool(name) ==
    /\ pc = "script"
    /\ nops < MaxOps
    /\ args' = [op |-> "get_tool", name |-> name, kw |-> EmptyDict]
    /\ \E g \in ProxyGet(name) :
          /\ Finish(g.result)
          /\ calls' = g.made
    /\ UNCHANGED <<pc, ctxFrame>>

\* AutomationContext.execute_tool, context.py:67-81
ExecuteTool(name, kw) ==
    /\ pc = "script"
    /\ nops < MaxOps
    /\ args' = [op |-> "execute_tool", name |-> name, kw |-> kw]
    /\ \E g \in ProxyGet(name) :
          LET tool == g.result IN
          CASE tool.kind = "raise" ->
                 Finish(tool) /\ calls' = g.made
            [] tool.kind = "return" /\ tool.payload = None ->
                 Finish(Raised("ValueError", name)) /\ calls' = g.made
            [] tool.kind = "return" /\ tool.payload # None
                                    /\ ~IsCallable(tool.payload) ->
                 Finish(Raised("TypeError", tool.payload)) /\ calls' = g.made
            [] OTHER ->
                 \E r \in CapabilityOutcomes :
                    /\ Finish(r)
                    /\ calls' = Append(g.made,
                                       [tool |-> tool.payload, pos |-> <<>>,
                                        kw |-> kw @@ ContextKw])
    /\ UNCHANGED <<pc, ctxFrame>>

\* context.<name>(**kw): normal attribute lookup on AutomationContext,
\* context.py:30-104
AttrCall(name, kw) ==
    /\ pc = "script"
    /\ nops < MaxOps
    /\ name \notin ContextAttrs
    /\ args' = [op |-> "attr_call", name |-> name, kw |-> kw]
    /\ Finish(Raised("AttributeError", name))
    /\ calls' = <<>>
    /\ UNCHANGED <<pc, ctxFrame>>

\* context.tools.<name>, context.py:9-27, 51: the proxy's own attribute when
\* it has one of that name, else ToolsProxy.__getattr__(name)
ProxyAttr(name) ==
    /\ pc = "script"
    /\ nops < MaxOps
    /\ args' = [op |-> "proxy_attr", name |-> name, kw |-> EmptyDict]
    /\ Finish(IF name \in ProxyAttrs
              THEN Returned("ToolsProxy." \o name)
              ELSE ProxyGetattr(proxy_tools, name))
    /\ calls' = <<>>
    /\ UNCHANGED <<pc, ctxFrame>>

\* The external engine, ftl.run_module_sync: it returns the module's
\* results or raises what went wrong (timeout, unreachable host, remote
\* failure)
ModuleNames == {"ping", "service"}
ModuleArgs == {EmptyDict, ("name" :> "nginx")}
EngineOutcomes == {Returned("results"), Raised("TimeoutError", "engine"),
                   Raised("ConnectionError", "engine")}

\* dict given as the engine's module_args keyword, written out
Repr(d) == IF d = EmptyDict THEN "{}" ELSE "{'name': 'nginx'}"

\* core.run_module, core.py:164-196: the one call it makes
run_module(inventory, modules, module_name, module_args, cache, use_gate) ==
    [tool |-> "ftl.run_module_sync",
     pos |-> <<inventory, modules, module_name, cache>>,
     kw |-> ("module_args" :> Repr(module_args)) @@ ("use_gate" :> use_gate)]

\* the context's call of core.run_module, context.py:86-93
ContextRunModule(module_name, module_args) ==
    run_module("inventory", "modules", module_name, module_args,
               gate_cache, "use_gate")

\* an engine call together with what the engine answered
Answered(call, e) == ("gave" :> e) @@ call

\* a run_module that calls the engine again after a failure and reports
\* a failure of the second call as a result
RunModuleRetrying(module_name, module_args) ==
    /\ pc = "script"
    /\ nops < MaxOps
    /\ args' = [op |-> "run_module", name |-> module_name, kw |-> module_args]
    /\ \E e1, e2 \in EngineOutcomes :
          LET call == ContextRunModule(module_name, module_args) IN
          IF e1.kind = "return"
          THEN /\ calls' = <<Answered(call, e1)>>
               /\ Finish(e1)
          ELSE /\ calls' = <<Answered(call, e1), Answered(call, e2)>>
               /\ Finish(IF e2.kind = "raise" THEN Returned("failed") ELSE e2)
    /\ UNCHANGED <<pc, ctxFrame>>

\* AutomationContext.run_module, context.py:83-93, and core.run_module,
\* core.py:164-196: calls holds the engine call and the engine's answer
RunModule(module_name, module_args) ==
    /\ pc = "script"
    /\ nops < MaxOps
    /\ args' = [op |-> "run_module", name |-> module_name, kw |-> module_args]
    /\ \E e \in EngineOutcomes :
          /\ calls' = <<Answered(ContextRunModule(module_name, module_args), e)>>
          /\ Finish(e)
    /\ UNCHANGED <<pc, ctxFrame>>

\* AutomationContext.print(text), context.py:95-97
ContextPrint(text) ==
    /\ pc = "script"
    /\ nops < MaxOps
    /\ Len(console_log) < MaxPrints
    /\ args' = [op |-> "print", name |-> text, kw |-> EmptyDict]
    /\ console_log' = Append(console_log, [mark |-> "print", style |-> "plain",
                                           body |-> text])
    /\ calls' = <<>>
    /\ Finish(Returned(None))
    /\ UNCHANGED <<pc, phases, files, env, inv, mods, secrets_dict, loop,
                   ctx_built, tools_dict, tool_instances, bi, stdout, prompts,
                   raised, gate_cache, proxy_tools>>

\* a cleanup that empties the secrets it holds
CleanupClearing ==
    /\ pc = "script"
    /\ nops < MaxOps
    /\ args' = [op |-> "cleanup", name |-> None, kw |-> EmptyDict]
    /\ secrets_dict' = EmptyDict
    /\ calls' = <<>>
    /\ Finish(Returned(None))
    /\ UNCHANGED <<pc, phases, files, env, inv, mods, loop, ctx_built,
                   tools_dict, tool_instances, bi, stdout, console_log,
                   prompts, raised, gate_cache, proxy_tools>>

\* AutomationContext.cleanup(), context.py:99-104: the body is pass
Cleanup ==
    /\ pc = "script"
    /\ nops < MaxOps
    /\ args' = [op |-> "cleanup", name |-> None, kw |-> EmptyDict]
    /\ calls' = <<>>
    /\ Finish(Returned(None))
    /\ UNCHANGED <<pc, ctxFrame>>

\* name in context.tools, ToolsProxy.__contains__, context.py:20-21
ProxyContains(name) ==
    /\ pc = "script"
    /\ nops < MaxOps
    /\ args' = [op |-> "proxy_contains", name |-> name, kw |-> EmptyDict]
    /\ calls' = <<>>
    /\ Finish(Returned(IF name \in DOMAIN proxy_tools THEN "True" ELSE "False"))
    /\ UNCHANGED <<pc, ctxFrame>>

\* the names iter(context.tools) yields, ToolsProxy.__iter__, context.py:23-24
ProxyIter ==
    /\ pc = "script"
    /\ nops < MaxOps
    /\ args' = [op |-> "proxy_iter", name |-> None, kw |-> EmptyDict]
    /\ calls' = <<>>
    /\ Finish(Returned(DOMAIN proxy_tools))
    /\ UNCHANGED <<pc, ctxFrame>>

\* the capabilities merged into a constructed context's mapping
LateTools == {("late_tool" :> "obj1"), ("hostname" :> "obj2")}

\* a proxy that took a copy of the mapping at construction
ProxyAfterUpdateCopied(mapping, held) == held

\* what the proxy holds once the mapping was updated in place: the proxy
\* keeps the mapping object itself (context.py:13, 50-51), not a copy
ProxyAfterUpdate(mapping, held) == mapping

\* context._tools_dict.update(u) on a constructed context, core.py:144
MergeTools(u) ==
    /\ pc = "script"
    /\ nops < MaxOps
    /\ args' = [op |-> "merge", name |-> None, kw |-> u]
    /\ tools_dict' = Update(tools_dict, u)
    /\ proxy_tools' = ProxyAfterUpdate(tools_dict', proxy_tools)
    /\ calls' = <<>>
    /\ Finish(Returned(None))
    /\ UNCHANGED <<pc, phases, files, env, inv, mods, secrets_dict, loop,
                   ctx_built, tool_instances, bi, stdout, console_log,
                   prompts, raised, gate_cache>>

CtxNext ==
    \/ \E name \in AskedNames \cup {"late_tool"} : ProxyAttr(name)
    \/ \E name \in AskedNames \cup {"late_tool"} : ProxyContains(name)
    \/ ProxyIter
    \/ \E u \in LateTools : MergeTools(u)
    \/ \E text \in {"hello"} : ContextPrint(text)
    \/ Cleanup
    \/ \E m \in ModuleNames, a \in ModuleArgs : RunModule(m, a)
    \/ \E name \in AskedNames : GetTool(name)
    \/ \E name \in AskedNames, kw \in Kwargs : ExecuteTool(name, kw)
    \/ \E name \in AskedNames, kw \in Kwargs : AttrCall(name, kw)

CtxSpec == CtxInit /\ [][CtxNext]_vars


(***************************************************************************)
(* builtin_tools.py and tool_base.py: a script invoking the signalling     *)
(* builtins, as functions and as AutomationTool instances                  *)
(***************************************************************************)
Signalling == {"complete", "impossible"}
Messages == {"m1", "m2"}
Consoles == {"console", None}     \* a rich Console, or no console

\* the parameters forward() declares, builtin_tools.py:199,221,248,275;
\* none of them takes **kwargs
ForwardParams(tool) ==
    CASE tool = "complete" -> {"message"}
      [] tool = "impossible" -> {"reason"}
      [] tool = "debug_tool" -> {"message"}
      [] OTHER -> {"question", "default"}

\* the tool's own text parameter
TextParam(tool) == IF tool = "impossible" THEN "reason" ELSE "message"

\* AutomationTool.__call__, tool_base.py:41-60: the keyword arguments that
\* reach forward() when the instance is called with kw
CallKwargs(kw, context) ==
    {"inventory", "modules", "console", "secrets"}
        \cup (DOMAIN context) \cup (DOMAIN kw)

ToolInit ==
    /\ pc = "idle"
    /\ phases = <<>>
    /\ args = [tool |-> None, form |-> None, text |-> None, console |-> None,
               nmsgs |-> 0]
    /\ files = EmptyDict
    /\ env = EmptyDict
    /\ inv = CallerInventory
    /\ mods = <<"modules">>
    /\ secrets_dict = EmptyDict
    /\ loop = "none"
    /\ ctx_built = FALSE
    /\ tools_dict = EmptyDict
    /\ tool_instances = EmptyDict
    /\ bi = 0
    /\ stdout = <<>>
    /\ console_log = <<>>
    /\ prompts = 0
    /\ raised = <<>>
    /\ outcome = Pending
    /\ calls = <<>>
    /\ nops = 0
    /\ gate_cache = None
    /\ proxy_tools = EmptyDict

toolFrame == <<phases, files, env, inv, mods, secrets_dict, loop, ctx_built,
               tools_dict, tool_instances, bi, prompts, raised, gate_cache,
               proxy_tools>>

Begin(tool, form, m, console) ==
    /\ pc = "idle"
    /\ nops < MaxOps
    /\ args' = [tool |-> tool, form |-> form, text |-> m, console |-> console,
                nmsgs |-> Len(stdout) + Len(console_log)]
    /\ calls' = <<[tool |-> tool, pos |-> <<>>, kw |-> (TextParam(tool) :> m)]>>

\* complete(message=m, console=c) / impossible(reason=m, console=c),
\* builtin_tools.py:56-93; c = None also stands for no console keyword
CallFunction(tool, m, console) ==
    /\ Begin(tool, "function", m, console)
    /\ pc' = "write"
    /\ UNCHANGED <<outcome, nops, stdout, console_log, toolFrame>>

\* Tool(inventory, modules, console).forward(m), builtin_tools.py:204-255
CallForward(tool, m, console) ==
    /\ Begin(tool, "forward", m, console)
    /\ pc' = "write"
    /\ UNCHANGED <<outcome, nops, stdout, console_log, toolFrame>>

\* Tool(inventory, modules, console)(message=m): AutomationTool.__call__,
\* tool_base.py:41-60, passes its merged keyword arguments to forward()
CallInstance(tool, m, console) ==
    /\ Begin(tool, "call", m, console)
    /\ IF CallKwargs((TextParam(tool) :> m), EmptyDict) \subseteq ForwardParams(tool)
       THEN /\ pc' = "write"
            /\ UNCHANGED <<outcome, nops>>
       ELSE /\ pc' = "idle"
            /\ Finish(Raised("TypeError", tool))
    /\ UNCHANGED <<stdout, console_log, toolFrame>>

\* the classes of get_builtin_tool_classes(), builtin_tools.py:302-314,
\* by the name each is registered under
BuiltinClasses == {"user_input_tool", "complete", "impossible", "debug_tool"}

\* positional parameters of __init__ after self, tool_base.py:24 and
\* builtin_tools.py:188,210,237,264; the first three have no default
InitParams == <<"inventory", "modules", "console", "secrets">>
InitRequired == 3

\* the positional arguments a script constructs a tool with
ConstructArgs == {<<CTX>>, <<"inventory", "modules", "console">>}

\* what the instance keeps of its constructor arguments, written out
\* (tool_base.py:35-39 and the state dictionary of the builtin classes)
Held(positional) ==
    IF Len(positional) = 1 THEN positional[1]
    ELSE positional[1] \o ", " \o positional[2] \o ", " \o positional[3]

\* cls(*positional): AutomationTool.__init__ and the builtin classes'
\* __init__, tool_base.py:24-39 and builtin_tools.py:188-197
Construct(cls, positional) ==
    /\ pc = "idle"
    /\ nops < MaxOps
    /\ args' = [tool |-> cls, form |-> "construct", text |-> Held(positional),
                console |-> None, nmsgs |-> Len(stdout) + Len(console_log)]
    /\ calls' = <<[tool |-> cls, pos |-> positional, kw |-> EmptyDict]>>
    /\ Finish(IF Len(positional) < InitRequired
                 \/ Len(positional) > Len(InitParams)
              THEN Raised("TypeError", cls)
              ELSE Returned(cls \o "(" \o Held(positional) \o ")"))
    /\ UNCHANGED <<pc, stdout, console_log, toolFrame>>

\* builtin_tools.py:67-71, 87-91, 223-226, 250-253
WriteMessage ==
    /\ pc = "write"
    /\ IF args.console # None
       THEN /\ console_log' = Append(console_log, Msg(args.tool, args.text, TRUE))
            /\ UNCHANGED stdout
       ELSE /\ stdout' = Append(stdout, Msg(args.tool, args.text, FALSE))
            /\ UNCHANGED console_log
    /\ pc' = "raise"
    /\ UNCHANGED <<args, outcome, calls, nops, toolFrame>>

\* builtin_tools.py:73, 93, 228, 255
RaiseSignal ==
    /\ pc = "raise"
    /\ Finish(Raised(SignalClass(args.tool), args.text))
    /\ pc' = "idle"
    /\ UNCHANGED <<args, calls, stdout, console_log, toolFrame>>

ToolNext ==
    \/ \E t \in Signalling, m \in Messages, c \in Consoles : CallFunction(t, m, c)
    \/ \E t \in Signalling, m \in Messages, c \in Consoles : CallForward(t, m, c)
    \/ \E t \in Signalling \cup {"debug_tool"}, m \in Messages, c \in Consoles :
          CallInstance(t, m, c)
    \/ \E cls \in BuiltinClasses, p \in ConstructArgs : Construct(cls, p)
    \/ WriteMessage
    \/ RaiseSignal

ToolSpec == ToolInit /\ [][ToolNext]_vars


(***************************************************************************)
(* tools.py: load_tool_from_file and load_tools_by_name, called by a script *)
(***************************************************************************)
\* name.startswith('_'), tools.py:31, 77
IsPrivate(name) == name \in {"_helper", "_probe"}

Member(kind, obj, own) == [kind |-> kind, obj |-> obj, own |-> own]

\* Tool files: whether the import system finds a loader for the path's
\* suffix (tools.py:24-25), and the namespace of the module once executed;
\* own tells the members the file defines from those it imported
ToolFiles ==
    ("tools.py" :>
        [loadable |-> TRUE,
         ns |-> ("f" :> Member("function", "tools.f", TRUE))
                @@ ("_helper" :> Member("function", "tools._helper", TRUE))
                @@ ("join" :> Member("function", "posixpath.join", FALSE))
                @@ ("Helper" :> Member("class", "tools.Helper", TRUE))
                @@ ("VERSION" :> Member("value", "1.0", TRUE))])
    @@ ("more.py" :>
        [loadable |-> TRUE,
         ns |-> ("f" :> Member("function", "more.f", TRUE))
                @@ ("g" :> Member("function", "more.g", TRUE))])
    @@ ("notes.txt" :>
        [loadable |-> FALSE,
         ns |-> ("f" :> Member("function", "notes.f", TRUE))])

\* The modules importable as ftl_tools.tools.<name> (tools.py:71-73), each
\* with the namespace of the imported module
PackageModules ==
    ("hostname" :>
        ("run" :> Member("function", "hostname.run", TRUE))
        @@ ("_probe" :> Member("function", "hostname._probe", TRUE))
        @@ ("Hostname" :> Member("class", "hostname.Hostname", TRUE)))
    @@ ("service" :>
        ("run" :> Member("function", "service.run", TRUE))
        @@ ("restart" :> Member("function", "service.restart", TRUE)))
    @@ ("complete" :>      \* a module named like a builtin
        ("run" :> Member("function", "complete.run", TRUE)))

RequestNames == {"hostname", "service", "ghost"}
Requests == UNION {[1..n -> RequestNames] : n \in 0..MaxNames}
CallForms == {"names", "names_context", "names_context_packages"}

\* the members kept by tools.py:30-32 and tools.py:76-78
PublicFunctions(ns) ==
    {n \in DOMAIN ns : ns[n].kind = "function" /\ ~IsPrivate(n)}

\* load_tool_from_file, tools.py:11-34, for a file that exists
load_tool_from_file(path) ==
    IF ToolFiles[path].loadable
    THEN [n \in PublicFunctions(ToolFiles[path].ns) |-> ToolFiles[path].ns[n].obj]
    ELSE EmptyDict

\* load_tools_from_files, tools.py:37-54: the files that exist, loaded in
\* the order given, each update replacing the names already present
RECURSIVE load_tools_from_files(_, _)
load_tools_from_files(file_paths, disk) ==
    IF file_paths = <<>>
    THEN EmptyDict
    ELSE LET n == Len(file_paths)
             file_path == file_paths[n]
         IN Update(load_tools_from_files(SubSeq(file_paths, 1, n - 1), disk),
                   IF file_path \in DOMAIN disk
                   THEN load_tool_from_file(file_path)
                   ELSE EmptyDict)

\* the lists of files a script loads
FileLists == {<<"tools.py", "more.py">>, <<"more.py", "tools.py">>,
              <<"notes.txt", "more.py">>}

\* the key of tools.py:78
Key(tool_name, name) == tool_name \o "_" \o name

LoaderInit ==
    /\ pc = "idle"
    /\ phases = <<>>
    /\ args = [fn |-> None, form |-> None, names |-> <<>>, path |-> None]
    /\ \E present \in SUBSET DOMAIN ToolFiles : files = [p \in present |-> "file"]
    /\ env = EmptyDict
    /\ inv = CallerInventory
    /\ mods = <<"modules">>
    /\ secrets_dict = EmptyDict
    /\ loop = "none"
    /\ ctx_built = TRUE
    /\ tools_dict = EmptyDict
    /\ tool_instances = EmptyDict
    /\ bi = 0
    /\ stdout = <<>>
    /\ console_log = <<>>
    /\ prompts = 0
    /\ raised = <<>>
    /\ outcome = Pending
    /\ calls = <<>>
    /\ nops = 0
    /\ gate_cache = None
    /\ proxy_tools = EmptyDict

loaderFrame == <<phases, files, env, inv, mods, secrets_dict, loop, ctx_built,
                 tools_dict, stdout, console_log, prompts, raised, calls,
                 gate_cache, proxy_tools>>

\* load_tool_from_file(path), tools.py:11-34; exec_module fails for a path
\* that does not exist
LoadToolFromFile(path) ==
    /\ pc = "idle"
    /\ nops < MaxOps
    /\ args' = [fn |-> "load_tool_from_file", form |-> None, names |-> <<>>,
                path |-> path]
    /\ Finish(IF path \in DOMAIN files \/ ~ToolFiles[path].loadable
              THEN Returned(load_tool_from_file(path))
              ELSE Raised("FileNotFoundError", path))
    /\ UNCHANGED <<pc, tool_instances, bi, loaderFrame>>

\* load_tools_from_files(file_paths), tools.py:37-54
LoadToolsFromFiles(file_paths) ==
    /\ pc = "idle"
    /\ nops < MaxOps
    /\ args' = [fn |-> "load_tools_from_files", form |-> None,
                names |-> file_paths, path |-> None]
    /\ Finish(Returned(load_tools_from_files(file_paths, files)))
    /\ UNCHANGED <<pc, tool_instances, bi, loaderFrame>>

\* load_tools_by_name(...) is called, tools.py:57, 67: the function takes
\* the list of names and nothing else
CallLoadToolsByName(names, form) ==
    /\ pc = "idle"
    /\ nops < MaxOps
    /\ args' = [fn |-> "load_tools_by_name", form |-> form, names |-> names,
                path |-> None]
    /\ IF form = "names"
       THEN /\ tool_instances' = EmptyDict
            /\ bi' = 1
            /\ pc' = "import"
            /\ UNCHANGED <<outcome, nops>>
       ELSE /\ Finish(Raised("TypeError", "load_tools_by_name"))
            /\ UNCHANGED <<pc, tool_instances, bi>>
    /\ UNCHANGED loaderFrame

\* one iteration without the except clause: the ImportError leaves the loader
ImportNameUnguarded ==
    /\ pc = "import"
    /\ bi <= Len(args.names)
    /\ LET tool_name == args.names[bi] IN
       IF tool_name \in DOMAIN PackageModules
       THEN /\ tool_instances' = Update(tool_instances,
                [k \in {Key(tool_name, n) :
                            n \in PublicFunctions(PackageModules[tool_name])} |->
                    LET n == CHOOSE n \in PublicFunctions(PackageModules[tool_name]) :
                                 Key(tool_name, n) = k
                    IN PackageModules[tool_name][n].obj])
            /\ bi' = bi + 1
            /\ UNCHANGED <<pc, outcome, nops>>
       ELSE /\ Finish(Raised("ImportError", tool_name))
            /\ pc' = "idle"
            /\ UNCHANGED <<tool_instances, bi>>
    /\ UNCHANGED <<args, loaderFrame>>

\* one iteration of the loop of load_tools_by_name, tools.py:69-82
ImportName ==
    /\ pc = "import"
    /\ bi <= Len(args.names)
    /\ LET tool_name == args.names[bi] IN
       IF tool_name \in DOMAIN PackageModules
       THEN tool_instances' = Update(tool_instances,
                [k \in {Key(tool_name, n) :
                            n \in PublicFunctions(PackageModules[tool_name])} |->
                    LET n == CHOOSE n \in PublicFunctions(PackageModules[tool_name]) :
                                 Key(tool_name, n) = k
                    IN PackageModules[tool_name][n].obj])
       ELSE UNCHANGED tool_instances
    /\ bi' = bi + 1
    /\ UNCHANGED <<pc, args, outcome, nops, loaderFrame>>

\* load_tools_by_name returns, tools.py:84
ReturnTools ==
    /\ pc = "import"
    /\ bi > Len(args.names)
    /\ Finish(Returned(tool_instances))
    /\ pc' = "idle"
    /\ UNCHANGED <<args, tool_instances, bi, loaderFrame>>

LoaderNext ==
    \/ \E path \in DOMAIN ToolFiles : LoadToolFromFile(path)
    \/ \E file_paths \in FileLists : LoadToolsFromFiles(file_paths)
    \/ \E names \in Requests, form \in CallForms : CallLoadToolsByName(names, form)
    \/ ImportName
    \/ ReturnTools

LoaderSpec == LoaderInit /\ [][LoaderNext]_vars

(***************************************************************************)
(* Properties                                                              *)
(***************************************************************************)
IsCompletion(cls) == cls \in {ExcCompletion, BtCompletion}
Passed(phase) == phase \in Range(phases)
Written == Range(stdout) \cup Range(console_log)
FourBuiltins == {"user_input_tool", "debug_tool", "complete", "impossible"}
BoundInstance(name) ==
    CASE name = "user_input_tool" -> "UserInputTool(context)"
      [] name = "debug_tool" -> "DebugTool(context)"
      [] name = "complete" -> "CompleteTool(context)"
      [] OTHER -> "ImpossibleTool(context)"

\* C1: a completion signal raised by the builtin complete while an
\* automation scope is being executed is one the scope's handler catches,
\* and the code that entered the scope sees a normal exit, no exception.
C1_CompletionIsCaught ==
    \A i \in DOMAIN raised :
        raised[i].cls = BtCompletion =>
            /\ ScopeCatches(raised[i].cls)
            /\ pc = "returned" => outcome.kind = "return"

C3_StopRequestedOnEveryExit ==
    pc = "returned" => /\ loop \in {"stop_requested", "stopped"}
                       /\ Passed("TORN_DOWN")

\* C4: an invocation of a signalling builtin with text M ends by raising the
\* builtin's signal with payload M, after exactly one message with the
\* builtin's mark and text M was written; the signal is never raised before
\* the message is written.
C4_MessageThenSignal ==
    /\ (pc = "idle" /\ nops > 0) =>
          /\ outcome = Raised(SignalClass(args.tool), args.text)
          /\ Len(stdout) + Len(console_log) = args.nmsgs + 1
          /\ \E styled \in BOOLEAN :
                Msg(args.tool, args.text, styled) \in
                    {stdout[i] : i \in {Len(stdout)} \cap DOMAIN stdout}
                    \cup {console_log[i] :
                            i \in {Len(console_log)} \cap DOMAIN console_log}
    /\ pc = "raise" => Len(stdout) + Len(console_log) = args.nmsgs + 1

\* C5: a scope passes through all its phases, in order, none skipped or
\* repeated: at every moment the phases passed are a prefix of the fixed
\* order, the context is constructed with an empty mapping, and when control
\* is back with the entering code all phases have been passed.
C5_PhasesInOrder ==
    /\ Len(phases) <= Len(AllPhases)
    /\ phases = SubSeq(AllPhases, 1, Len(phases))
    /\ (Passed("CONTEXT_CONSTRUCTED") /\ ~Passed("TOOLS_BOUND"))
          => tools_dict = EmptyDict
    /\ pc = "returned" => phases = AllPhases

\* C6: between constructing the context and handing it to caller code no
\* builtin is executed: no capability is invoked, no prompt is issued, no
\* success or failure message is written and no signal is raised.
C6_BindingExecutesNothing ==
    (Passed("CONTEXT_CONSTRUCTED") /\ ~Passed("ACTIVE")) =>
        /\ calls = <<>>
        /\ prompts = 0
        /\ \A m \in Written : m.mark \notin {"ok", "fail"}
        /\ \A i \in DOMAIN raised :
              raised[i].cls \notin {BtCompletion, BtImpossible, ExcCompletion}

\* C7: every scope hands its context to caller code, and the mapping then
\* holds the four builtins, each an instance bound to that context.
C7_BuiltinsBoundAtHandover ==
    pc = "returned" =>
        /\ Passed("ACTIVE")
        /\ \A n \in FourBuiltins :
              /\ n \in DOMAIN tools_dict
              /\ tools_dict[n] = BoundInstance(n)

\* C8: context.<name>(**kwargs) for a bound name invokes exactly that
\* capability with exactly kwargs and returns its result; for an unbound
\* name it raises an attribute-lookup failure naming the name.
C8_AttributeAccessDispatches ==
    (args.op = "attr_call") =>
        IF args.name \in DOMAIN tools_dict
        THEN /\ calls = <<[tool |-> tools_dict[args.name], pos |-> <<>>,
                           kw |-> args.kw]>>
             /\ outcome \in CapabilityOutcomes
        ELSE /\ calls = <<>>
             /\ outcome = Raised("AttributeError", args.name)

\* C9: get_tool(name) never raises, returns the capability bound under name
\* or None when there is none, and invokes nothing.
C9_GetToolIsPureLookup ==
    (args.op = "get_tool") =>
        /\ outcome = Returned(Get(tools_dict, args.name))
        /\ calls = <<>>

\* C10: execute_tool(name, ...) for an unbound name raises the lookup
\* failure "Tool '<name>' not found" and invokes no capability.
C10_ExecuteUnboundFails ==
    (args.op = "execute_tool" /\ args.name \notin DOMAIN tools_dict) =>
        /\ outcome = Raised("ValueError", args.name)
        /\ calls = <<>>


\* C11 (as claimed): for every name, context.tools.<name> yields the
\* capability bound under that name when it is bound and raises an
\* attribute-lookup failure naming it when it is not.
C11_ProxyYieldsBindingForEveryName ==
    (args.op = "proxy_attr") =>
        outcome = IF args.name \in DOMAIN tools_dict
                  THEN Returned(tools_dict[args.name])
                  ELSE Raised("AttributeError", args.name)

\* C11 (amended): the same, for every name that is not an attribute of the
\* proxy object itself.
C11_ProxyYieldsBinding ==
    (args.op = "proxy_attr" /\ args.name \notin ProxyAttrs) =>
        outcome = IF args.name \in DOMAIN tools_dict
                  THEN Returned(tools_dict[args.name])
                  ELSE Raised("AttributeError", args.name)

C11_Witness ==
    /\ args.op = "proxy_attr"
    /\ args.name \notin ProxyAttrs
    /\ args.name \notin DOMAIN tools_dict
    /\ "hostname" \in DOMAIN tools_dict
    /\ outcome = Raised("AttributeError", args.name)


\* a finished call of load_tools_by_name / load_tool_from_file
LoadedByName == pc = "idle" /\ args.fn = "load_tools_by_name"
LoadedFromFile == pc = "idle" /\ args.fn = "load_tool_from_file"
WithContext == args.form \in {"names_context", "names_context_packages"}
Resolves(name) == name \in DOMAIN PackageModules
FunctionNames(ns) == {n \in DOMAIN ns : ns[n].kind = "function" /\ ~IsPrivate(n)}
BoundTool(name) == name \o "(context)"

\* C12: load_tools_by_name([], context) returns the empty mapping and does
\* not raise.
C12_EmptyRequestGivesEmptyMapping ==
    (LoadedByName /\ WithContext /\ args.names = <<>>) =>
        /\ outcome.kind = "return"
        /\ outcome.payload = EmptyDict

\* C13: load_tools_by_name(names, context) maps every requested name that
\* exists in the default package, under exactly that name, to an instance
\* constructed with the context.
C13_ResolvedNameBoundToContext ==
    (LoadedByName /\ WithContext) =>
        \A i \in DOMAIN args.names :
            Resolves(args.names[i]) =>
                /\ outcome.kind = "return"
                /\ args.names[i] \in DOMAIN outcome.payload
                /\ outcome.payload[args.names[i]] = BoundTool(args.names[i])

C15_UnresolvedToolsDoNotStopScope ==
    (pc = "returned" /\ \E i \in DOMAIN args.tools : ~Resolves(args.tools[i])) =>
        /\ Passed("ACTIVE")
        /\ \A i \in DOMAIN args.tools :
              ~Resolves(args.tools[i]) => args.tools[i] \notin DOMAIN tools_dict

\* the candidate packages of a request that names them, and what they offer
CandidatePackages == <<"site_tools", "ftl_tools.tools">>
Offers(package, name) ==
    \/ package = "ftl_tools.tools" /\ Resolves(name)
    \/ package = "site_tools" /\ name = "hostname"
FirstOffering(name) ==
    CandidatePackages[CHOOSE i \in DOMAIN CandidatePackages :
        /\ Offers(CandidatePackages[i], name)
        /\ \A j \in 1..(i - 1) : ~Offers(CandidatePackages[j], name)]

\* C16: called with candidate packages, the loader binds each requested name
\* to the class of the first package, in the order given, that offers it.
C16_FirstPackageWins ==
    (LoadedByName /\ args.form = "names_context_packages") =>
        \A i \in DOMAIN args.names :
            (\E k \in DOMAIN CandidatePackages :
                Offers(CandidatePackages[k], args.names[i])) =>
                /\ outcome.kind = "return"
                /\ args.names[i] \in DOMAIN outcome.payload
                /\ outcome.payload[args.names[i]] =
                      FirstOffering(args.names[i]) \o "." \o BoundTool(args.names[i])

\* C17: for a file F that exists, load_tool_from_file(F) returns
\* a mapping whose keys are exactly the names of F's own top-level functions
\* that do not start with an underscore, each mapped to that function.
C17_KeysAreOwnPublicFunctions ==
    (LoadedFromFile /\ args.path \in DOMAIN files) =>
        /\ outcome.kind = "return"
        /\ DOMAIN outcome.payload =
              {n \in FunctionNames(ToolFiles[args.path].ns) :
                    ToolFiles[args.path].ns[n].own}
        /\ \A n \in DOMAIN outcome.payload :
              outcome.payload[n] = ToolFiles[args.path].ns[n].obj

\* C18: a scope entered with tools_files=[F] hands its context to caller
\* code with every non-private top-level function of F in the capability
\* mapping under its own name.
C18_ToolFilesAreLoaded ==
    (pc = "returned" /\ args.tools_files # <<>>) =>
        /\ Passed("ACTIVE")
        /\ \A i \in DOMAIN args.tools_files :
              \A n \in FunctionNames(ToolFiles[args.tools_files[i]].ns) :
                 n \in DOMAIN tools_dict

\* C19: entering a scope with an inventory path that is not on disk does not
\* fail at the inventory: the step creates a file holding an empty mapping at
\* that path, the loaded inventory is empty, and setup goes on to the modules.
C19_MissingInventoryCreated ==
    [][(pc = "UNINITIALIZED" /\ IsPath(args.inventory)
            /\ args.inventory \notin DOMAIN files) =>
          /\ pc' = "load_modules"
          /\ outcome' = Pending
          /\ args.inventory \in DOMAIN files'
          /\ files'[args.inventory] = EmptyInventoryText
          /\ inv' = {}]_vars

C19_Witness ==
    /\ pc = "load_modules"
    /\ IsPath(args.inventory)
    /\ args.inventory \in DOMAIN files
    /\ files[args.inventory] = EmptyInventoryText
    /\ inv = {}

\* the secrets step of core.py:99-103 is over
SecretsResolved == pc \notin {"UNINITIALIZED", "load_modules", "load_secrets"}

\* C20: once the secrets step is over the secrets mapping has exactly the
\* requested names, each with the environment's value when the variable is
\* set and None when it is not, and the context is constructed with that
\* mapping; no exception comes from the secrets step.
C20_SecretsForExactlyRequestedNames ==
    SecretsResolved =>
        /\ DOMAIN secrets_dict = Range(args.secrets)
        /\ \A n \in DOMAIN secrets_dict :
              secrets_dict[n] = IF n \in DOMAIN env THEN env[n] ELSE None
        /\ \A i \in DOMAIN raised : raised[i].cls # "KeyError"
        /\ pc \in {"bind_builtins", "returned"} => ctx_built

C20_Witness ==
    /\ ctx_built
    /\ args.secrets = <<"API_TOKEN", "DB_PASSWORD">>
    /\ "API_TOKEN" \in DOMAIN env
    /\ "DB_PASSWORD" \notin DOMAIN env
    /\ secrets_dict["API_TOKEN"] = env["API_TOKEN"]
    /\ secrets_dict["DB_PASSWORD"] = None

\* the list automation() passes to load_modules, core.py:97
ModulesInput == IF args.modules = <<>> THEN <<"modules">> ELSE args.modules

\* the module step of core.py:96-97 is over
ModulesLoaded == pc \notin {"UNINITIALIZED", "load_modules"}

\* positions of the input whose path is on disk
ExistingAt(input, disk) == {i \in DOMAIN input : input[i] \in DOMAIN disk}

\* C21: load_modules returns the input paths that exist and no others, in
\* their input order (an order-preserving selection of the positions whose
\* path exists), and no exception comes from the step.
C21_ExistingPathsInOrder ==
    ModulesLoaded =>
        /\ \E f \in [DOMAIN mods -> DOMAIN ModulesInput] :
              /\ \A j, k \in DOMAIN mods : j < k => f[j] < f[k]
              /\ \A k \in DOMAIN mods : mods[k] = ModulesInput[f[k]]
              /\ {f[k] : k \in DOMAIN mods} = ExistingAt(ModulesInput, files)
        /\ \A i \in DOMAIN raised : raised[i].cls # "FileNotFoundError"

C21_Witness ==
    /\ ModulesLoaded
    /\ args.modules = <<"roles", "lib", "modules", "roles">>
    /\ mods = <<"roles", "modules", "roles">>

\* C22: a context.run_module(module_name, **args) call makes exactly one
\* call of the engine, with the context's inventory, module paths,
\* connection cache and gate flag and the given name and arguments; when the
\* engine raises, that exception and no other leaves the call, and when it
\* returns, its result is returned.
C22_OneEngineCallPassedThrough ==
    (args.op = "run_module") =>
        /\ Len(calls) = 1
        /\ calls[1].tool = "ftl.run_module_sync"
        /\ calls[1].pos = <<"inventory", "modules", args.name, gate_cache>>
        /\ calls[1].kw = ("module_args" :> Repr(args.kw))
                             @@ ("use_gate" :> "use_gate")
        /\ outcome = calls[1].gave

C22_Witness ==
    /\ args.op = "run_module"
    /\ args.name = "service"
    /\ args.kw = ("name" :> "nginx")
    /\ outcome = Raised("TimeoutError", "engine")
    /\ Len(calls) = 1

\* C23: a builtin capability class constructed with exactly one argument,
\* the context, gives an instance that retains that context.
C23_ConstructedFromContextAlone ==
    (args.form = "construct" /\ calls[1].pos = <<CTX>>) =>
        outcome = Returned(args.tool \o "(" \o CTX \o ")")

\* C24: an instance invoked with exactly its declared tool-specific keyword
\* parameters runs its implementation with those parameters: the call does
\* not fail on keyword arguments the caller did not give.
C24_CallTakesDeclaredParametersOnly ==
    (args.form = "call" /\ pc = "idle") =>
        outcome # Raised("TypeError", args.tool)

\* C25: once the context is constructed, no operation on it changes the
\* inventory or the secrets mapping it holds.
C25_InventoryAndSecretsNeverChange ==
    [][ctx_built => (inv' = inv /\ secrets_dict' = secrets_dict)]_vars

C25_Witness ==
    /\ ctx_built
    /\ nops = MaxOps
    /\ args.op = "cleanup"
    /\ inv = CallerInventory
    /\ secrets_dict = ConstructedSecrets

LastDefining(file_paths, name) ==
    LET at == {i \in DOMAIN file_paths :
                  /\ file_paths[i] \in DOMAIN files
                  /\ ToolFiles[file_paths[i]].loadable
                  /\ name \in FunctionNames(ToolFiles[file_paths[i]].ns)}
    IN file_paths[CHOOSE i \in at : \A j \in at : j <= i]

\* load_tools_from_files binds a name found in several files to the function
\* of the last of them (the part of C27 about files)
LaterFileWins ==
    (pc = "idle" /\ args.fn = "load_tools_from_files") =>
        /\ outcome.kind = "return"
        /\ \A name \in DOMAIN outcome.payload :
              outcome.payload[name] =
                 ToolFiles[LastDefining(args.names, name)].ns[name].obj

\* C27: a requested tool named like a builtin replaces the builtin: when the
\* scope is handed over the mapping binds that name once, to the requested
\* tool.
C27_RequestedToolReplacesBuiltin ==
    (pc = "returned" /\ \E i \in DOMAIN args.tools :
                            args.tools[i] \in FourBuiltins /\ Resolves(args.tools[i])) =>
        /\ Passed("ACTIVE")
        /\ \A i \in DOMAIN args.tools :
              (args.tools[i] \in FourBuiltins /\ Resolves(args.tools[i])) =>
                 /\ args.tools[i] \in DOMAIN tools_dict
                 /\ tools_dict[args.tools[i]] = BoundTool(args.tools[i])

\* C28: no run of automation() ends with a started loop that was sent no
\* stop request, a run ended by an exception raised while binding the
\* builtins or resolving the requested tools included.
C28_StartedLoopIsStopped ==
    (pc = "returned" /\ ~Passed("ACTIVE")) => loop # "running"

====
